---- MODULE Spec2Model ----
(***************************************************************************)
(* check-compromised-npm-packages: the detection engine (lib/core.js) and  *)
(* the command-line driver (check-compromised.js).                         *)
(*                                                                         *)
(* JavaScript values are tagged records of one shape; strings are TLA+     *)
(* strings; a JS Map is the sequence of its entries in insertion order, a  *)
(* JS Set the sequence of its members in insertion order, and Set objects  *)
(* that a Map holds live in a heap and are held by reference.              *)
(***************************************************************************)
EXTENDS Naturals, Sequences, FiniteSets, TLC

VARIABLES
    call,          \* the library function last called, with its arguments
    ret,           \* what that call returned (or that it threw)
    installedMap,  \* an inventory Map under construction: name -> Set reference
    heap,          \* the Set objects allocated so far, by reference
    pc,            \* where main stands
    argv,          \* the command-line flags
    cwdFile,       \* compromised.json in the project root
    bundledFile,   \* compromised.json beside the script
    lockFile,      \* package-lock.json in the project root
    tree,          \* the node_modules tree of the project root
    knownBad,      \* what loadKnownBad returned
    nm,            \* what collectFromNodeModules returned
    lock,          \* what collectFromPackageLock returned
    merged,        \* the merged inventory
    findings,      \* the final finding list
    exit,          \* <<>> while running, <<code>> once the process has exited
    output,        \* what has been printed, in order
    collected,     \* the collectors invoked so far
    stack,         \* the frames of walk() in progress, the innermost first
    listed         \* the readdirSync calls on node_modules directories so far

libVars == <<call, ret, installedMap>>

mainVars == <<pc, argv, cwdFile, bundledFile, lockFile, tree, knownBad, nm, lock,
              merged, findings, exit, output, collected>>

walkVars == <<stack, listed>>

vars == <<libVars, heap, mainVars, walkVars>>

-----------------------------------------------------------------------------
(* JavaScript values, as JSON.parse and the code produce them.             *)

Undefined == [t |-> "undefined", s |-> "", n |-> 0, a |-> <<>>]
Null      == [t |-> "null", s |-> "", n |-> 0, a |-> <<>>]
Bool(b)   == [t |-> IF b THEN "true" ELSE "false", s |-> "", n |-> 0, a |-> <<>>]
Num(n)    == [t |-> "num", s |-> "", n |-> n, a |-> <<>>]
Str(s)    == [t |-> "str", s |-> s, n |-> 0, a |-> <<>>]
\* an array: a holds the elements
Arr(a)    == [t |-> "arr", s |-> "", n |-> 0, a |-> a]
\* an object: a holds the <<key, value>> pairs in Object.entries order
Obj(a)    == [t |-> "obj", s |-> "", n |-> 0, a |-> a]

\* !v is false
Truthy(v) ==
    ~ \/ v.t \in {"undefined", "null", "false"}
      \/ v.t = "num" /\ v.n = 0
      \/ v.t = "str" /\ v.s = ""

\* typeof v === "object"
IsObject(v) == v.t \in {"null", "arr", "obj"}

\* Array.isArray(v)
IsArray(v) == v.t = "arr"

\* v.key throws a TypeError
GetThrows(v) == v.t \in {"undefined", "null"}

\* v.key, for a v on which it does not throw
Get(v, key) ==
    IF v.t = "obj" /\ \E i \in 1..Len(v.a) : v.a[i][1] = key
    THEN LET i == CHOOSE j \in 1..Len(v.a) :
                      /\ v.a[j][1] = key
                      /\ \A l \in (j+1)..Len(v.a) : v.a[l][1] # key
         IN v.a[i][2]
    ELSE Undefined

DigitChar(d) ==
    CASE d = 0 -> "0" [] d = 1 -> "1" [] d = 2 -> "2" [] d = 3 -> "3"
      [] d = 4 -> "4" [] d = 5 -> "5" [] d = 6 -> "6" [] d = 7 -> "7"
      [] d = 8 -> "8" [] d = 9 -> "9"

RECURSIVE NumToString(_)
NumToString(n) ==
    IF n < 10 THEN DigitChar(n)
    ELSE NumToString(n \div 10) \o DigitChar(n % 10)

RECURSIVE String(_)
RECURSIVE JoinFrom(_, _)
\* Array.prototype.join(","), which String applies to an array
JoinFrom(a, i) ==
    IF i > Len(a) THEN ""
    ELSE (IF i > 1 THEN "," ELSE "")
         \o (IF a[i].t \in {"undefined", "null"} THEN "" ELSE String(a[i]))
         \o JoinFrom(a, i + 1)

\* String(v)
String(v) ==
    CASE v.t = "str" -> v.s
      [] v.t = "num" -> NumToString(v.n)
      [] v.t = "undefined" -> "undefined"
      [] v.t = "null" -> "null"
      [] v.t = "true" -> "true"
      [] v.t = "false" -> "false"
      [] v.t = "arr" -> JoinFrom(v.a, 1)
      [] v.t = "obj" -> "[object Object]"

\* s.startsWith(p)
StartsWith(s, p) == Len(s) >= Len(p) /\ SubSeq(s, 1, Len(p)) = p

-----------------------------------------------------------------------------
(* Map and Set, in insertion order.                                        *)

Range(s) == {s[i] : i \in 1..Len(s)}

\* a.map(String)
MapString(a) == [i \in 1..Len(a) |-> Str(String(a[i]))]

\* set.has(v): SameValueZero, which on these values is equality
SetHas(set, v) == \E i \in 1..Len(set) : set[i] = v

\* set.add(v)
SetAdd(set, v) == IF SetHas(set, v) THEN set ELSE Append(set, v)

RECURSIVE SetFrom(_, _, _)
SetFrom(a, i, set) ==
    IF i > Len(a) THEN set ELSE SetFrom(a, i + 1, SetAdd(set, a[i]))

\* new Set(iterable)
NewSet(a) == SetFrom(a, 1, <<>>)

\* map.has(k)
MapHas(map, k) == \E i \in 1..Len(map) : map[i].k = k

\* map.get(k), for a key the map has
MapGet(map, k) == map[CHOOSE i \in 1..Len(map) : map[i].k = k].v

\* map.set(k, v): a key already present keeps its place
MapSet(map, k, v) ==
    IF MapHas(map, k)
    THEN [i \in 1..Len(map) |-> IF map[i].k = k THEN [k |-> k, v |-> v] ELSE map[i]]
    ELSE Append(map, [k |-> k, v |-> v])

MapKeys(map) == {map[i].k : i \in 1..Len(map)}

\* the Map with every Set reference replaced by the Set it refers to
Deref(h, map) == [i \in 1..Len(map) |-> [k |-> map[i].k, v |-> h[map[i].v]]]

-----------------------------------------------------------------------------
(* lib/core.js                                                             *)

Ok(v) == [threw |-> FALSE, val |-> v]
Threw == [threw |-> TRUE, val |-> <<>>]

\* new Set(entry.badVersions.map(String)) throws a TypeError: entry is null or
\* undefined, or entry.badVersions is no array and so has no map method
EntryThrows(entry) ==
    \/ GetThrows(entry)
    \/ ~IsArray(Get(entry, "badVersions"))

\* BuildBadIndex with the bad versions stored as given, not map(String)
RECURSIVE BuildBadIndexUncoerced(_, _, _)
BuildBadIndexUncoerced(packages, i, badIndex) ==
    IF i > Len(packages) THEN Ok(badIndex)
    ELSE LET entry == packages[i] IN
         IF EntryThrows(entry) THEN Threw
         ELSE BuildBadIndexUncoerced(packages, i + 1,
                  MapSet(badIndex, Get(entry, "name"),
                         NewSet(Get(entry, "badVersions").a)))

RECURSIVE BuildBadIndex(_, _, _)
BuildBadIndex(packages, i, badIndex) ==
    IF i > Len(packages) THEN Ok(badIndex)
    ELSE LET entry == packages[i] IN
         IF EntryThrows(entry) THEN Threw
         ELSE BuildBadIndex(packages, i + 1,
                  MapSet(badIndex, Get(entry, "name"),
                         NewSet(MapString(Get(entry, "badVersions").a))))

\* the badIndex compare builds from knownBad.  The for-of loop throws on a
\* packages value that is not iterable; a string is iterated by character,
\* and a character has no badVersions
BadIndex(registry) ==
    IF GetThrows(registry) THEN Threw
    ELSE LET packages == Get(registry, "packages") IN
         CASE packages.t = "arr" -> BuildBadIndex(packages.a, 1, <<>>)
           [] packages.t = "str" /\ packages.s = "" -> Ok(<<>>)
           [] OTHER -> Threw

\* MatchVersions without the test badIndex.get(name).has(v)
RECURSIVE MatchVersionsUntested(_, _, _, _)
MatchVersionsUntested(name, versions, bad, j) ==
    IF j > Len(versions) THEN <<>>
    ELSE <<[name |-> name, version |-> versions[j]]>>
         \o MatchVersionsUntested(name, versions, bad, j + 1)

\* the findings one name's versions contribute, in the Set's order
RECURSIVE MatchVersions(_, _, _, _)
MatchVersions(name, versions, bad, j) ==
    IF j > Len(versions) THEN <<>>
    ELSE (IF SetHas(bad, versions[j])
          THEN <<[name |-> name, version |-> versions[j]]>>
          ELSE <<>>)
         \o MatchVersions(name, versions, bad, j + 1)

RECURSIVE MatchEntries(_, _, _)
MatchEntries(installed, badIndex, i) ==
    IF i > Len(installed) THEN <<>>
    ELSE (IF ~MapHas(badIndex, installed[i].k) THEN <<>>
          ELSE MatchVersions(installed[i].k, installed[i].v,
                             MapGet(badIndex, installed[i].k), 1))
         \o MatchEntries(installed, badIndex, i + 1)

\* compare(installedMap, knownBad); installed is the Map with its Sets
compare(installed, registry) ==
    LET badIndex == BadIndex(registry) IN
    IF badIndex.threw THEN Threw
    ELSE Ok(MatchEntries(installed, badIndex.val, 1))

\* a key that leaves the version out
FindingKeyNameOnly(f) == String(f.name)

\* `${f.name}@${f.version}`
FindingKey(f) == String(f.name) \o "@" \o String(f.version)

\* UniqFrom with the filter's test inverted: keeps what was seen before
RECURSIVE UniqFromInverted(_, _, _)
UniqFromInverted(list, i, seen) ==
    IF i > Len(list) THEN <<>>
    ELSE LET key == FindingKey(list[i]) IN
         IF key \notin seen
         THEN UniqFromInverted(list, i + 1, seen \cup {key})
         ELSE <<list[i]>> \o UniqFromInverted(list, i + 1, seen)

RECURSIVE UniqFrom(_, _, _)
UniqFrom(list, i, seen) ==
    IF i > Len(list) THEN <<>>
    ELSE LET key == FindingKey(list[i]) IN
         IF key \in seen THEN UniqFrom(list, i + 1, seen)
         ELSE <<list[i]>> \o UniqFrom(list, i + 1, seen \cup {key})

\* uniqFindings(findings)
uniqFindings(list) == UniqFrom(list, 1, {})

\* add(map, name, version): the heap and the map afterwards
add(h, map, name, version) ==
    LET h1   == IF MapHas(map, name) THEN h ELSE Append(h, <<>>)
        map1 == IF MapHas(map, name) THEN map ELSE MapSet(map, name, Len(h1))
        ref  == MapGet(map1, name)
    IN [heap |-> [h1 EXCEPT ![ref] = SetAdd(h1[ref], Str(String(version)))],
        map  |-> map1]

\* files: missing, present but not parsable as JSON, or holding a JSON value
Missing     == [st |-> "missing", val |-> Undefined]
Unparsable  == [st |-> "unparsable", val |-> Undefined]
File(v)     == [st |-> "ok", val |-> v]

\* fs.existsSync(path)
existsSync(file) == file.st # "missing"

\* readJSONSafe without the catch giving null: what was read before the
\* parse error is returned
readJSONTruncated(file) ==
    IF file.st = "ok" THEN file.val
    ELSE IF file.st = "unparsable"
    THEN Obj(<< <<"dependencies",
                  Obj(<< <<"zz", Obj(<< <<"version", Str("1")>> >>)>> >>)>> >>)
    ELSE Null

\* readJSONSafe(p)
readJSONSafe(file) == IF file.st = "ok" THEN file.val ELSE Null

\* Object.entries(v) of an object or an array
ObjectEntries(v) ==
    IF v.t = "arr" THEN [i \in 1..Len(v.a) |-> <<NumToString(i - 1), v.a[i]>>]
    ELSE v.a

InstallRoot == "node_modules/"

\* key.replace(/^node_modules\//, "") without its anchor: every occurrence goes
RECURSIVE StripEveryInstallRoot(_)
StripEveryInstallRoot(key) ==
    IF Len(key) < Len(InstallRoot) THEN key
    ELSE IF StartsWith(key, InstallRoot)
         THEN StripEveryInstallRoot(SubSeq(key, Len(InstallRoot) + 1, Len(key)))
         ELSE SubSeq(key, 1, 1)
              \o StripEveryInstallRoot(SubSeq(key, 2, Len(key)))

\* key.replace(/^node_modules\//, "")
StripInstallRoot(key) ==
    IF StartsWith(key, InstallRoot)
    THEN SubSeq(key, Len(InstallRoot) + 1, Len(key))
    ELSE key

\* the loop over Object.entries(lock.packages); st is [heap, map]
RECURSIVE PackagesLoop(_, _, _)
PackagesLoop(st, entries, i) ==
    IF i > Len(entries) THEN st
    ELSE LET key  == entries[i][1]
             meta == entries[i][2]
         IN IF ~Truthy(meta) \/ ~Truthy(Get(meta, "version"))
            THEN PackagesLoop(st, entries, i + 1)
            ELSE PackagesLoop(add(st.heap, st.map, Str(StripInstallRoot(key)),
                                  Get(meta, "version")),
                              entries, i + 1)

RECURSIVE walkDeps(_, _)
RECURSIVE WalkDepsEntries(_, _, _)
\* the loop of walkDeps over Object.entries(obj)
WalkDepsEntries(st, entries, i) ==
    IF i > Len(entries) THEN st
    ELSE LET name == entries[i][1]
             meta == entries[i][2]
         IN IF ~Truthy(meta) THEN WalkDepsEntries(st, entries, i + 1)
            ELSE LET st1 == IF Truthy(Get(meta, "version"))
                            THEN add(st.heap, st.map, Str(name), Get(meta, "version"))
                            ELSE st
                     st2 == IF Truthy(Get(meta, "dependencies"))
                            THEN walkDeps(st1, Get(meta, "dependencies"))
                            ELSE st1
                 IN WalkDepsEntries(st2, entries, i + 1)

\* walkDeps(obj)
walkDeps(st, obj) ==
    IF ~Truthy(obj) \/ ~IsObject(obj) THEN st
    ELSE WalkDepsEntries(st, ObjectEntries(obj), 1)

\* collectFromPackageLock(projectRoot): the heap afterwards and the Map returned
collectFromPackageLock(h, file) ==
    LET hits == [heap |-> h, map |-> <<>>] IN
    IF ~existsSync(file) THEN hits
    ELSE LET lockJson == readJSONSafe(file) IN
         IF ~Truthy(lockJson) THEN hits
         ELSE LET packages == Get(lockJson, "packages")
                  deps     == Get(lockJson, "dependencies")
                  st1 == IF Truthy(packages) /\ IsObject(packages)
                         THEN PackagesLoop(hits, ObjectEntries(packages), 1)
                         ELSE hits
              IN IF Truthy(deps) THEN walkDeps(st1, deps) ELSE st1

-----------------------------------------------------------------------------
(* check-compromised.js                                                    *)

\* A node_modules tree is [root, dirs]: dirs[d] is a node_modules directory,
\* [readable, entries]; root is the directory of <projectRoot>/node_modules,
\* 0 when there is none.  An entry is [name, isDir, manifest, nested,
\* readable, children]: manifest is its package.json, nested the directory of
\* its own node_modules (0 when it has none), and readable and children what
\* listing the entry itself gives, which the code does for an @scope only.
NoDir == 0

\* if (depth > 6) return
MaxDepth == 6

\* processPkg without the test of pkg, pkg.name and pkg.version
processPkgUnchecked(st, ent) ==
    IF ~existsSync(ent.manifest) THEN st
    ELSE LET pkg == readJSONSafe(ent.manifest) IN
         IF GetThrows(pkg) THEN st
         ELSE add(st.heap, st.map, Get(pkg, "name"), Get(pkg, "version"))

\* processPkg(pkgDir)
processPkg(st, ent) ==
    IF ~existsSync(ent.manifest) THEN st
    ELSE LET pkg == readJSONSafe(ent.manifest) IN
         IF ~Truthy(pkg) \/ ~Truthy(Get(pkg, "name")) \/ ~Truthy(Get(pkg, "version"))
         THEN st
         ELSE add(st.heap, st.map, Get(pkg, "name"), Get(pkg, "version"))

RECURSIVE walk(_, _, _, _)
RECURSIVE WalkEntries(_, _, _, _, _)
RECURSIVE WalkScoped(_, _, _, _, _)

\* for (const s of scoped)
WalkScoped(dirs, st, scoped, j, depth) ==
    IF j > Len(scoped) THEN st
    ELSE LET s == scoped[j] IN
         IF ~s.isDir THEN WalkScoped(dirs, st, scoped, j + 1, depth)
         ELSE LET st1 == processPkg(st, s)
                  st2 == IF s.nested # NoDir
                         THEN walk(dirs, st1, s.nested, depth + 1)
                         ELSE st1
              IN WalkScoped(dirs, st2, scoped, j + 1, depth)

\* for (const ent of entries)
WalkEntries(dirs, st, entries, i, depth) ==
    IF i > Len(entries) THEN st
    ELSE LET ent == entries[i] IN
         IF ~ent.isDir \/ StartsWith(ent.name, ".")
         THEN WalkEntries(dirs, st, entries, i + 1, depth)
         ELSE IF StartsWith(ent.name, "@")
         THEN WalkEntries(dirs,
                          IF ent.readable
                          THEN WalkScoped(dirs, st, ent.children, 1, depth)
                          ELSE st,
                          entries, i + 1, depth)
         ELSE LET st1 == processPkg(st, ent)
                  st2 == IF ent.nested # NoDir
                         THEN walk(dirs, st1, ent.nested, depth + 1)
                         ELSE st1
              IN WalkEntries(dirs, st2, entries, i + 1, depth)

\* walk(dir, depth)
walk(dirs, st, dir, depth) ==
    IF depth > MaxDepth THEN st
    ELSE IF ~dirs[dir].readable THEN st
    ELSE WalkEntries(dirs, st, dirs[dir].entries, 1, depth)

\* collectFromNodeModules(): the heap afterwards and the Map returned
collectFromNodeModules(h, t) ==
    LET hits == [heap |-> h, map |-> <<>>] IN
    IF t.root = NoDir THEN hits
    ELSE walk(t.dirs, hits, t.root, 0)

\* loadKnownBad without the test of data.packages
loadKnownBadUnvalidated(cwd, bundled) ==
    IF ~existsSync(cwd) /\ ~existsSync(bundled)
    THEN [exited |-> TRUE, data |-> Undefined]
    ELSE LET data == readJSONSafe(IF existsSync(cwd) THEN cwd ELSE bundled) IN
         IF ~Truthy(data)
         THEN [exited |-> TRUE, data |-> Undefined]
         ELSE [exited |-> FALSE, data |-> data]

\* loadKnownBad(): either the process exits with code 2 or data is returned
loadKnownBad(cwd, bundled) ==
    IF ~existsSync(cwd) /\ ~existsSync(bundled)
    THEN [exited |-> TRUE, data |-> Undefined]
    ELSE LET data == readJSONSafe(IF existsSync(cwd) THEN cwd ELSE bundled) IN
         IF ~Truthy(data) \/ ~IsArray(Get(data, "packages"))
         THEN [exited |-> TRUE, data |-> Undefined]
         ELSE [exited |-> FALSE, data |-> data]

\* for (const v of vers) merged.get(name).add(v)
RECURSIVE AddAll(_, _, _, _)
AddAll(h, ref, vers, j) ==
    IF j > Len(vers) THEN h
    ELSE AddAll([h EXCEPT ![ref] = SetAdd(h[ref], vers[j])], ref, vers, j + 1)

\* the merge loop with merged.set(name, vers) in place of the union
RECURSIVE MergeLoopOverwriting(_, _, _)
MergeLoopOverwriting(st, second, i) ==
    IF i > Len(second) THEN st
    ELSE MergeLoopOverwriting(
             [heap |-> st.heap,
              map  |-> MapSet(st.map, second[i].k, second[i].v)],
             second, i + 1)

\* for (const [name, vers] of nm.entries()) { ... }; st is [heap, map]
RECURSIVE MergeLoop(_, _, _)
MergeLoop(st, second, i) ==
    IF i > Len(second) THEN st
    ELSE LET name == second[i].k
             h1   == IF MapHas(st.map, name) THEN st.heap ELSE Append(st.heap, <<>>)
             map1 == IF MapHas(st.map, name) THEN st.map
                     ELSE MapSet(st.map, name, Len(h1))
         IN MergeLoop([heap |-> AddAll(h1, MapGet(map1, name), h1[second[i].v], 1),
                       map  |-> map1],
                      second, i + 1)

\* const merged = new Map(first); then the loop over second.  main calls it
\* with first = lock and second = nm.  new Map(first) copies the entries of
\* first, not the Sets they refer to.
Merge(h, first, second) == MergeLoop([heap |-> h, map |-> first], second, 1)

\* p.badVersions.join(", ") throws a TypeError for some p of packages
ListThrows(packages) ==
    \E i \in 1..Len(packages) :
        \/ GetThrows(packages[i])
        \/ ~IsArray(Get(packages[i], "badVersions"))

SHOW_HELP   == "--help" \in argv \/ "-h" \in argv
SHOW_LIST   == "--list" \in argv
OUTPUT_JSON == "--json" \in argv
VERBOSE     == "--verbose" \in argv

NoCall == [fn |-> "none"]

\* no library call has been made
LibIdle ==
    /\ call = NoCall
    /\ ret = Ok(<<>>)
    /\ installedMap = <<>>

\* no walk is in progress
WalkIdle ==
    /\ stack = <<>>
    /\ listed = {}

\* main is not running
MainIdle ==
    /\ pc = "idle"
    /\ argv = {}
    /\ cwdFile = Missing
    /\ bundledFile = Missing
    /\ lockFile = Missing
    /\ tree = [root |-> NoDir, dirs |-> <<>>]
    /\ knownBad = Undefined
    /\ nm = <<>>
    /\ lock = <<>>
    /\ merged = <<>>
    /\ findings = <<>>
    /\ exit = <<>>
    /\ output = <<>>
    /\ collected = {}

\* if (SHOW_HELP) { showHelp(); process.exit(0); }
ShowHelp ==
    /\ pc = "start"
    /\ SHOW_HELP
    /\ output' = Append(output, "help")
    /\ exit' = <<0>>
    /\ pc' = "done"
    /\ UNCHANGED <<libVars, walkVars, heap, argv, cwdFile, bundledFile, lockFile, tree,
                   knownBad, nm, lock, merged, findings, collected>>

\* const knownBad = loadKnownBad();
LoadKnownBad ==
    /\ pc = "start"
    /\ ~SHOW_HELP
    /\ LET r == loadKnownBad(cwdFile, bundledFile) IN
           IF r.exited
           THEN /\ output' = Append(output, "ERROR")
                /\ exit' = <<2>>
                /\ pc' = "done"
                /\ UNCHANGED knownBad
           ELSE /\ knownBad' = r.data
                /\ pc' = IF SHOW_LIST THEN "list" ELSE "collectNm"
                /\ UNCHANGED <<output, exit>>
    /\ UNCHANGED <<libVars, walkVars, heap, argv, cwdFile, bundledFile, lockFile, tree,
                   nm, lock, merged, findings, collected>>

\* if (SHOW_LIST) { ...; process.exit(0); }
ShowList ==
    /\ pc = "list"
    /\ IF ~OUTPUT_JSON /\ ListThrows(Get(knownBad, "packages").a)
       THEN /\ output' = output \o <<"list", "uncaught TypeError">>
            /\ exit' = <<1>>
       ELSE /\ output' = Append(output, "list")
            /\ exit' = <<0>>
    /\ pc' = "done"
    /\ UNCHANGED <<libVars, walkVars, heap, argv, cwdFile, bundledFile, lockFile, tree,
                   knownBad, nm, lock, merged, findings, collected>>

\* const nm = collectFromNodeModules();
CollectNm ==
    /\ pc = "collectNm"
    /\ LET r == collectFromNodeModules(heap, tree) IN
           /\ heap' = r.heap
           /\ nm' = r.map
    /\ collected' = collected \cup {"node_modules"}
    /\ pc' = "collectLock"
    /\ UNCHANGED <<libVars, walkVars, argv, cwdFile, bundledFile, lockFile, tree, knownBad,
                   lock, merged, findings, exit, output>>

\* const lock = collectFromPackageLock(projectRoot);
CollectLock ==
    /\ pc = "collectLock"
    /\ LET r == collectFromPackageLock(heap, lockFile) IN
           /\ heap' = r.heap
           /\ lock' = r.map
    /\ collected' = collected \cup {"package-lock.json"}
    /\ pc' = "merge"
    /\ UNCHANGED <<libVars, walkVars, argv, cwdFile, bundledFile, lockFile, tree, knownBad,
                   nm, merged, findings, exit, output>>

\* const merged = new Map(lock); for (...) { ... }
MergeStep ==
    /\ pc = "merge"
    /\ LET r == Merge(heap, lock, nm) IN
           /\ heap' = r.heap
           /\ merged' = r.map
    /\ pc' = "compare"
    /\ UNCHANGED <<libVars, walkVars, argv, cwdFile, bundledFile, lockFile, tree, knownBad,
                   nm, lock, findings, exit, output, collected>>

\* const findings = uniqFindings(compare(merged, knownBad)); an exception
\* nothing catches ends the process with exit code 1
CompareStep ==
    /\ pc = "compare"
    /\ LET r == compare(Deref(heap, merged), knownBad) IN
           IF r.threw
           THEN /\ output' = Append(output, "uncaught TypeError")
                /\ exit' = <<1>>
                /\ pc' = "done"
                /\ UNCHANGED findings
           ELSE /\ findings' = uniqFindings(r.val)
                /\ pc' = "report"
                /\ UNCHANGED <<output, exit>>
    /\ UNCHANGED <<libVars, walkVars, heap, argv, cwdFile, bundledFile, lockFile, tree,
                   knownBad, nm, lock, merged, collected>>

\* the exit code main ends with for a finding list: process.exit(1), or
\* the end of main, after which the process exits with 0
ExitCodeFor(list) ==
    IF OUTPUT_JSON
    THEN IF Len(list) > 0 THEN 1 ELSE 0
    ELSE IF Len(list) = 0 THEN 0 ELSE 1

\* if (VERBOSE) { ... } and the report of the findings
Report ==
    /\ pc = "report"
    /\ output' = output
                    \o (IF VERBOSE THEN <<"verbose">> ELSE <<>>)
                    \o (IF OUTPUT_JSON THEN <<"json">>
                        ELSE IF Len(findings) = 0 THEN <<"clean">> ELSE <<"found">>)
    /\ exit' = <<ExitCodeFor(findings)>>
    /\ pc' = "done"
    /\ UNCHANGED <<libVars, walkVars, heap, argv, cwdFile, bundledFile, lockFile, tree,
                   knownBad, nm, lock, merged, findings, collected>>

\* the command lines, known-bad lists, lockfiles and trees of the runs
ArgvChoices ==
    SUBSET {"--help", "--list", "--json", "--verbose"} \cup {{"-h"}}

KnownBadEntry(name, badVersions) ==
    Obj(<< <<"name", name>>, <<"badVersions", Arr(badVersions)>> >>)

KnownBadData(entries) == Obj(<< <<"packages", Arr(entries)>> >>)

\* { packages: [ { name: "a", badVersions: ["1"] },
\*               { name: "@s/p", badVersions: [3] } ] }
KnownBadA == KnownBadData(<<KnownBadEntry(Str("a"), <<Str("1")>>),
                            KnownBadEntry(Str("@s/p"), <<Num(3)>>)>>)

\* { packages: [ { name: "b", badVersions: [] } ] }
KnownBadNone == KnownBadData(<<KnownBadEntry(Str("b"), <<>>)>>)

\* { packages: [ { name: "a" } ] }
KnownBadNameOnly == KnownBadData(<<Obj(<< <<"name", Str("a")>> >>)>>)

\* { packages: [ { name: "a@1", badVersions: ["1"] },
\*               { name: "a", badVersions: ["1@1"] } ] }
KnownBadAtSigns ==
    KnownBadData(<<KnownBadEntry(Str("a@1"), <<Str("1")>>),
                   KnownBadEntry(Str("a"), <<Str("1@1")>>)>>)

CwdFiles ==
    {Missing, Unparsable, File(Obj(<<>>)),
     File(Obj(<< <<"packages", Obj(<<>>)>> >>)),
     File(KnownBadA), File(KnownBadNone), File(KnownBadNameOnly),
     File(KnownBadAtSigns)}

BundledFiles == {Missing, Unparsable, File(KnownBadA)}

Meta(version) == Obj(<< <<"version", version>> >>)

\* { packages: { "": {version:"9"}, "node_modules/a": {version:"1"},
\*               "node_modules/@s/p": {version:3} } }
LockFlat ==
    Obj(<< <<"packages",
             Obj(<< <<"", Meta(Str("9"))>>,
                    <<"node_modules/a", Meta(Str("1"))>>,
                    <<"node_modules/@s/p", Meta(Num(3))>> >>)>> >>)

\* { dependencies: { a: {version:"3", dependencies: { b: {version:"1"} } } } }
LockNested ==
    Obj(<< <<"dependencies",
             Obj(<< <<"a", Obj(<< <<"version", Str("3")>>,
                                  <<"dependencies",
                                    Obj(<< <<"b", Meta(Str("1"))>> >>)>> >>)>> >>)>> >>)

\* { packages: { "": {version:"9"}, "node_modules/a": {version:"1"} },
\*   dependencies: { a: {version:"4"} } }
LockBoth ==
    Obj(<< <<"packages",
             Obj(<< <<"", Meta(Str("9"))>>,
                    <<"node_modules/a", Meta(Str("1"))>> >>)>>,
           <<"dependencies", Obj(<< <<"a", Meta(Str("4"))>> >>)>> >>)

\* { dependencies: { "a@1": {version:"1"}, a: {version:"1@1"} } }
LockAtSigns ==
    Obj(<< <<"dependencies",
             Obj(<< <<"a@1", Meta(Str("1"))>>, <<"a", Meta(Str("1@1"))>> >>)>> >>)

LockFiles ==
    {Missing, Unparsable, File(LockFlat), File(LockNested), File(LockBoth),
     File(LockAtSigns)}

Manifest(name, version) ==
    File(Obj(<< <<"name", Str(name)>>, <<"version", Str(version)>> >>))

\* a package directory in a node_modules or in an @scope
PkgDir(name, manifest, nested) ==
    [name |-> name, isDir |-> TRUE, manifest |-> manifest, nested |-> nested,
     readable |-> TRUE, children |-> <<>>]

\* an @scope directory with the package directories in it
ScopeDir(name, children) ==
    [name |-> name, isDir |-> TRUE, manifest |-> Missing, nested |-> NoDir,
     readable |-> TRUE, children |-> children]

\* a file, not a directory
PlainFile(name) ==
    [name |-> name, isDir |-> FALSE, manifest |-> Missing, nested |-> NoDir,
     readable |-> FALSE, children |-> <<>>]

Dir(entries) == [readable |-> TRUE, entries |-> entries]

NoTree == [root |-> NoDir, dirs |-> <<>>]

\* node_modules/a (a@1) with node_modules/a/node_modules/a (a@2)
TreeNested ==
    [root |-> 1,
     dirs |-> <<Dir(<<PkgDir("a", Manifest("a", "1"), 2)>>),
                Dir(<<PkgDir("a", Manifest("a", "2"), NoDir)>>)>>]

\* node_modules/@s/p (@s/p@3), node_modules/.bin, node_modules/README and
\* node_modules/b (b@1)
TreeScoped ==
    [root |-> 1,
     dirs |-> <<Dir(<<ScopeDir("@s", <<PkgDir("p", Manifest("@s/p", "3"), NoDir)>>),
                      PkgDir(".bin", Manifest("hidden", "1"), NoDir),
                      PlainFile("README"),
                      PkgDir("b", Manifest("b", "1"), NoDir)>>)>>]

Trees == {NoTree, TreeNested, TreeScoped}

Init ==
    /\ LibIdle
    /\ heap = <<>>
    /\ pc = "start"
    /\ argv \in ArgvChoices
    /\ cwdFile \in CwdFiles
    /\ bundledFile \in BundledFiles
    /\ lockFile \in LockFiles
    /\ tree \in Trees
    /\ knownBad = Undefined
    /\ nm = <<>>
    /\ lock = <<>>
    /\ merged = <<>>
    /\ findings = <<>>
    /\ exit = <<>>
    /\ output = <<>>
    /\ collected = {}
    /\ WalkIdle

Next ==
    \/ ShowHelp
    \/ LoadKnownBad
    \/ ShowList
    \/ CollectNm
    \/ CollectLock
    \/ MergeStep
    \/ CompareStep
    \/ Report

Spec == Init /\ [][Next]_vars

-----------------------------------------------------------------------------
(* The merge step of main.                                                 *)

\* the (name, version) pairs of a Map from names to Sets
PairsOf(map) ==
    UNION {{<<map[i].k, v>> : v \in Range(map[i].v)} : i \in 1..Len(map)}

\* the versions a Map from names to Sets holds for a name
VersionsOf(map, name) == {p[2] : p \in {q \in PairsOf(map) : q[1] = name}}

\* the inventories as the two collectors returned them, with their Sets
NmReturned == LET r == collectFromNodeModules(<<>>, tree) IN Deref(r.heap, r.map)
LockReturned == LET r == collectFromPackageLock(<<>>, lockFile) IN Deref(r.heap, r.map)

\* the merge with the filesystem inventory as its first operand
MergedSwapped ==
    LET n == collectFromNodeModules(<<>>, tree)
        l == collectFromPackageLock(n.heap, lockFile)
        r == Merge(l.heap, n.map, l.map)
    IN Deref(r.heap, r.map)

\* main has merged the inventories
MergeDone ==
    \/ pc \in {"compare", "report"}
    \/ pc = "done" /\ "package-lock.json" \in collected

\* main has its final finding list
FindingsReady ==
    \/ pc = "report"
    \/ /\ pc = "done"
       /\ output # <<>>
       /\ output[Len(output)] \in {"json", "clean", "found"}

\* how many findings of a list name this pair
CountFindings(list, p) ==
    Cardinality({i \in 1..Len(list) : <<list[i].name, list[i].version>> = p})

\* C4: the merged inventory holds, for every name, exactly the union of the
\* name's version sets in the lockfile inventory and in the filesystem
\* inventory; it is the same mapping with the operands swapped; and a pair
\* both collectors found is in it once and gives one finding when it is bad.
MergeIsKeywiseUnion ==
    MergeDone =>
        LET m == Deref(heap, merged) IN
        /\ MapKeys(m) = MapKeys(LockReturned) \cup MapKeys(NmReturned)
        /\ \A name \in MapKeys(m) :
               VersionsOf(m, name) =
                   VersionsOf(LockReturned, name) \cup VersionsOf(NmReturned, name)
        /\ MapKeys(MergedSwapped) = MapKeys(m)
        /\ \A name \in MapKeys(m) :
               VersionsOf(MergedSwapped, name) = VersionsOf(m, name)
        /\ Cardinality(MapKeys(m)) = Len(m)
        /\ \A i \in 1..Len(m) : Cardinality(Range(m[i].v)) = Len(m[i].v)
        /\ FindingsReady =>
               \A p \in PairsOf(LockReturned) \cap PairsOf(NmReturned) :
                   CountFindings(findings, p) =
                       IF p \in PairsOf(BadIndex(knownBad).val) THEN 1 ELSE 0

\* C4 witness: a run in which both collectors found the same bad pair, one
\* name is in the lockfile inventory only, and one name has a version that
\* only the lockfile inventory holds and a version that only the filesystem
\* inventory holds.
MergeWitness ==
    /\ MergeDone
    /\ FindingsReady
    /\ \E p \in PairsOf(LockReturned) \cap PairsOf(NmReturned) :
           CountFindings(findings, p) = 1
    /\ MapKeys(LockReturned) \ MapKeys(NmReturned) # {}
    /\ \E name \in MapKeys(LockReturned) \cap MapKeys(NmReturned) :
           /\ VersionsOf(LockReturned, name) \ VersionsOf(NmReturned, name) # {}
           /\ VersionsOf(NmReturned, name) \ VersionsOf(LockReturned, name) # {}

\* C5 as stated: after the merge every name's version set in the lockfile
\* inventory and in the filesystem inventory is what it was before it.
MergeLeavesInputsUnchanged ==
    MergeDone =>
        /\ Deref(heap, lock) = LockReturned
        /\ Deref(heap, nm) = NmReturned

-----------------------------------------------------------------------------
(* Loading the known-bad list and the exit code.                           *)

\* the file loadKnownBad reads
ChosenFile == IF cwdFile.st # "missing" THEN cwdFile ELSE bundledFile

\* the known-bad data source is there, parses, and has an array as packages
SourceValid ==
    /\ ChosenFile.st = "ok"
    /\ ChosenFile.val.t = "obj"
    /\ \E i \in 1..Len(ChosenFile.val.a) :
           /\ ChosenFile.val.a[i][1] = "packages"
           /\ ChosenFile.val.a[i][2].t = "arr"

\* in every run, collection starts only after the list is loaded and valid
CollectionAfterLoad ==
    collected # {} => SourceValid /\ knownBad = ChosenFile.val

\* C8 as stated: with a known-bad source that is missing, unparsable or
\* without an array as packages, the run ends with exit code 2 and invokes
\* no collector; collection always comes after loading and validation.
BadSourceIsFatal ==
    /\ ~SourceValid =>
           /\ collected = {}
           /\ pc = "done" => exit = <<2>>
    /\ CollectionAfterLoad

\* C8 as amended: the same for every run without --help or -h; a run with
\* --help or -h prints the help and exits with code 0 before it looks for
\* the known-bad source, and invokes no collector either.
BadSourceIsFatalUnlessHelp ==
    /\ ~SourceValid =>
           /\ collected = {}
           /\ pc \in {"start", "done"}
           /\ pc = "done" => exit = IF SHOW_HELP THEN <<0>> ELSE <<2>>
    /\ CollectionAfterLoad

\* C8 witness: the source is {} and the run has ended with exit code 2.
BadSourceWitness ==
    /\ ChosenFile = File(Obj(<<>>))
    /\ ~SHOW_HELP
    /\ pc = "done"
    /\ exit = <<2>>
    /\ collected = {}

\* C9 as stated: a scan run (no --help, no --list) with a valid known-bad
\* list exits with 1 exactly when the final finding list is non-empty and
\* with 0 exactly when it is empty, in every output mode; exit code 2 comes
\* from a failed load only.
ExitCodeTellsFindings ==
    pc = "done" =>
        /\ ~SHOW_HELP /\ ~SHOW_LIST /\ SourceValid =>
               /\ exit = <<1>> <=> findings # <<>>
               /\ exit = <<0>> <=> findings = <<>>
        /\ exit = <<2>> => ~SourceValid

-----------------------------------------------------------------------------
(* Direct calls of the library, as test/test.js makes them.                *)

LibNames == {Str("a"), Str("b")}

\* version values as a lockfile, a manifest or a caller may supply them
RawVersions == {Str("1"), Num(1), Str("2")}

BadVersionLists == {<<>>, <<Str("1")>>, <<Num(1), Str("2")>>, <<Str("1.0")>>}

\* { name } with no badVersions field
NameOnlyEntry(name) == Obj(<< <<"name", name>> >>)

RegistryEntries ==
    {KnownBadEntry(n, b) : n \in LibNames, b \in BadVersionLists}
        \cup {NameOnlyEntry(Str("a"))}

Registries ==
    {KnownBadData(<<>>)}
        \cup {KnownBadData(<<e>>) : e \in RegistryEntries}
        \cup {KnownBadData(<<e1, e2>>) : e1 \in RegistryEntries, e2 \in RegistryEntries}

\* the number of versions an inventory holds
RECURSIVE CountVersions(_, _, _)
CountVersions(h, map, i) ==
    IF i > Len(map) THEN 0
    ELSE Len(h[map[i].v]) + CountVersions(h, map, i + 1)

MaxVersions == 3

LibInit ==
    /\ LibIdle
    /\ heap = <<>>
    /\ MainIdle
    /\ WalkIdle

\* new Map([[name, new Set([version])]]), the way the tests build an inventory
NewInventory ==
    \E name \in LibNames, version \in RawVersions :
        /\ call = NoCall
        /\ heap' = << <<version>> >>
        /\ installedMap' = <<[k |-> name, v |-> 1]>>
        /\ call' = [fn |-> "new", name |-> name, version |-> version]
        /\ ret' = Ok(<<>>)
        /\ UNCHANGED <<mainVars, walkVars>>

\* add(installedMap, name, version)
Add ==
    \E name \in LibNames, version \in RawVersions :
        /\ call.fn # "compare"
        /\ CountVersions(heap, installedMap, 1) < MaxVersions
        /\ LET r == add(heap, installedMap, name, version) IN
               /\ heap' = r.heap
               /\ installedMap' = r.map
        /\ call' = [fn |-> "add", name |-> name, version |-> version]
        /\ ret' = Ok(<<>>)
        /\ UNCHANGED <<mainVars, walkVars>>

\* compare(installedMap, knownBad), the last call of a test
Compare ==
    \E registry \in Registries :
        /\ call.fn # "compare"
        /\ call' = [fn |-> "compare",
                    installed |-> Deref(heap, installedMap),
                    knownBad |-> registry]
        /\ ret' = compare(Deref(heap, installedMap), registry)
        /\ UNCHANGED <<installedMap, heap, mainVars, walkVars>>

CompareNext == NewInventory \/ Add \/ Compare

SpecCompare == LibInit /\ [][CompareNext]_vars

-----------------------------------------------------------------------------
(* The comparator, the coercion of versions and the known-bad index.       *)

FindingPairs(list) == {<<f.name, f.version>> : f \in Range(list)}

CompareReturned == call.fn = "compare" /\ ~ret.threw

\* the entries of the registry a compare call was given
CallEntries == Get(call.knownBad, "packages").a

\* the bad versions, as the registry lists them, of the entry that
\* badIndex.set left in the index for name
ListedBadVersions(name) ==
    LET last == CHOOSE i \in 1..Len(CallEntries) :
                    /\ Get(CallEntries[i], "name") = name
                    /\ \A j \in (i+1)..Len(CallEntries) :
                           Get(CallEntries[j], "name") # name
    IN Range(Get(CallEntries[last], "badVersions").a)

\* C1: what compare returns holds a finding {name, version} if and only if
\* name is a key of the inventory and of the index and version is a member
\* both of the name's installed versions and of its bad-version set; so an
\* unmonitored name, an empty bad list and a list matching no installed
\* version give no finding.
CompareFindsExactlyTheCommonPairs ==
    CompareReturned =>
        FindingPairs(ret.val) =
            PairsOf(call.installed) \cap PairsOf(BadIndex(call.knownBad).val)

\* C1 witness: one compare call with a finding, an installed name that is
\* not monitored, and an installed version of a monitored name that is not
\* in the name's bad-version set.
CompareFindsWitness ==
    /\ CompareReturned
    /\ ret.val # <<>>
    /\ \E p \in PairsOf(call.installed) :
           ~MapHas(BadIndex(call.knownBad).val, p[1])
    /\ \E p \in PairsOf(call.installed) :
           /\ MapHas(BadIndex(call.knownBad).val, p[1])
           /\ p \notin FindingPairs(ret.val)

\* C2 as stated: an installed version and a bad version of the same name
\* match exactly when their string forms are equal, however the installed
\* value came into the inventory.
CompareCoercesBothSides ==
    CompareReturned =>
        \A p \in PairsOf(call.installed) :
            MapHas(BadIndex(call.knownBad).val, p[1]) =>
                (p \in FindingPairs(ret.val)
                    <=> \E b \in ListedBadVersions(p[1]) :
                            String(p[2]) = String(b))

\* C2 as amended: compare coerces the bad versions only; an installed value
\* matches exactly when it is a string equal to the string form of a bad
\* version of its name; add stores the string form of the version it is
\* given, so a version that came through add matches by its string form.
CompareMatchesStringsExactly ==
    /\ CompareReturned =>
           \A p \in PairsOf(call.installed) :
               MapHas(BadIndex(call.knownBad).val, p[1]) =>
                   (p \in FindingPairs(ret.val)
                       <=> /\ p[2].t = "str"
                           /\ \E b \in ListedBadVersions(p[1]) :
                                  p[2].s = String(b))
    /\ call.fn = "add" =>
           <<call.name, Str(String(call.version))>>
               \in PairsOf(Deref(heap, installedMap))

\* C2 witness: a bad version given as a number matches an installed version
\* that add coerced from a number, while a string that differs from every
\* bad version ("1" against "1.0") matches nothing.
CompareCoercionWitness ==
    /\ CompareReturned
    /\ \E f \in Range(ret.val) :
           /\ f.version = Str("1")
           /\ Num(1) \in ListedBadVersions(f.name)
    /\ \E p \in PairsOf(call.installed) :
           /\ p[2] = Str("1")
           /\ MapHas(BadIndex(call.knownBad).val, p[1])
           /\ ListedBadVersions(p[1]) = {Str("1.0")}
           /\ p \notin FindingPairs(ret.val)

\* C3 as stated: every bad version listed for a name in any entry of the
\* registry is in that name's set of the index, and an installed copy of it
\* is a finding.
IndexHoldsEveryListedVersion ==
    CompareReturned =>
        \A e \in Range(CallEntries) :
            \A b \in Range(Get(e, "badVersions").a) :
                LET name == Get(e, "name")
                    bad  == Str(String(b))
                IN /\ SetHas(MapGet(BadIndex(call.knownBad).val, name), bad)
                   /\ <<name, bad>> \in PairsOf(call.installed)
                          => <<name, bad>> \in FindingPairs(ret.val)

-----------------------------------------------------------------------------
(* The deduplicator.                                                       *)

Finding(name, version) == [name |-> name, version |-> version]

\* findings whose keys coincide although name or version differ are among
\* them: "a@1" + "@" + "1" and "a" + "@" + "1@1"
SomeFindings ==
    {Finding(Str("a"), Str("1")), Finding(Str("a"), Str("2")),
     Finding(Str("b"), Str("1")), Finding(Str("a"), Str("1@1")),
     Finding(Str("a@1"), Str("1")), Finding(Str("a"), Num(1))}

MaxFindings == 3

FindingSeqs == UNION {[1..n -> SomeFindings] : n \in 0..MaxFindings}

\* uniqFindings(findings), called once
Uniq ==
    \E list \in FindingSeqs :
        /\ call = NoCall
        /\ call' = [fn |-> "uniqFindings", findings |-> list]
        /\ ret' = Ok(uniqFindings(list))
        /\ UNCHANGED <<installedMap, heap, mainVars, walkVars>>

UniqNext == Uniq

SpecUniq == LibInit /\ [][UniqNext]_vars

UniqReturned == call.fn = "uniqFindings"

\* the identity key of a finding: name + "@" + version
IdentityKey(f) == String(f.name) \o "@" \o String(f.version)

\* the positions of findings at which a key occurs for the first time
FirstOccurrences(list) ==
    {i \in 1..Len(list) :
        \A j \in 1..(i-1) : IdentityKey(list[j]) # IdentityKey(list[i])}

\* C6: uniqFindings(F) is the subsequence of F made of the first occurrence
\* of each identity key, in input order: no key twice, every key of F kept,
\* the order of the kept findings unchanged.
UniqKeepsFirstOccurrences ==
    UniqReturned =>
        LET F    == call.findings
            R    == ret.val
            kept == FirstOccurrences(F)
        IN /\ Len(R) = Cardinality(kept)
           /\ \A i \in kept : R[Cardinality({k \in kept : k < i}) + 1] = F[i]
           /\ \A r1, r2 \in 1..Len(R) :
                  IdentityKey(R[r1]) = IdentityKey(R[r2]) => r1 = r2
           /\ {IdentityKey(f) : f \in Range(R)} = {IdentityKey(f) : f \in Range(F)}

\* C6 witness: a sequence with a repeated key between two other keys, of
\* which the first occurrences are kept in order.
UniqWitness ==
    /\ UniqReturned
    /\ Len(call.findings) = 3
    /\ IdentityKey(call.findings[1]) = IdentityKey(call.findings[3])
    /\ ret.val = <<call.findings[1], call.findings[2]>>

\* C7: deduplicating a deduplicated sequence changes nothing.
UniqIdempotent ==
    UniqReturned => uniqFindings(ret.val) = ret.val

\* C7 witness: a call that removed a duplicate and kept two findings.
UniqIdempotentWitness ==
    /\ UniqReturned
    /\ Len(ret.val) = 2
    /\ Len(call.findings) > Len(ret.val)

-----------------------------------------------------------------------------
(* The lockfile collector.                                                 *)

FlatKeys ==
    {"node_modules/a", "node_modules/@s/p", "node_modules/a/node_modules/b", ""}

\* records of lock.packages: with a version (a string, a number, the empty
\* string), without one, null, and a string where an object is expected
FlatMetas ==
    {Meta(Str("1")), Meta(Num(2)), Meta(Str("")), Obj(<<>>), Null, Str("x")}

PackagesChoices ==
    {Undefined, Str("x")}
        \cup {Obj(<< <<k, m>> >>) : k \in FlatKeys, m \in FlatMetas}
        \cup {Obj(<< <<"node_modules/a", Meta(Str("1"))>>, <<k, m>> >>) :
                 k \in FlatKeys \ {"node_modules/a"},
                 m \in {Meta(Str("1")), Meta(Num(2))}}

DepNames == {"a", "b"}

\* the nodes of a dependencies tree that nest at most depth levels
RECURSIVE DepNodes(_)
DepNodes(depth) ==
    IF depth = 0
    THEN {Null, Str("x"), Obj(<<>>), Meta(Str("1")), Meta(Num(2))}
    ELSE DepNodes(depth - 1)
         \cup {Obj(<< <<"dependencies", Obj(<< <<n, child>> >>)>> >>) :
                  n \in DepNames, child \in DepNodes(depth - 1)}
         \cup {Obj(<< <<"version", Str("1")>>,
                      <<"dependencies", Obj(<< <<n, child>> >>)>> >>) :
                  n \in DepNames, child \in DepNodes(depth - 1)}

DepsChoices(depth) ==
    {Undefined, Str("x")}
        \cup {Obj(<< <<n, node>> >>) : n \in DepNames, node \in DepNodes(depth)}
        \cup {Obj(<< <<"a", n1>>, <<"b", n2>> >>) :
                 n1 \in DepNodes(0), n2 \in DepNodes(0)}

\* the lockfile { packages: p, dependencies: d }, a field left out when undefined
LockDoc(p, d) ==
    Obj((IF p = Undefined THEN <<>> ELSE << <<"packages", p>> >>)
        \o (IF d = Undefined THEN <<>> ELSE << <<"dependencies", d>> >>))

MaxNesting == 2

LockChoices ==
    {Missing, Unparsable, File(Null), File(Str("x")), File(Arr(<<>>))}
        \cup {File(LockDoc(p, d)) : p \in PackagesChoices, d \in DepsChoices(1)}
        \cup {File(LockDoc(Undefined, d)) : d \in DepsChoices(MaxNesting)}

\* collectFromPackageLock(projectRoot), called once
CallCollectFromPackageLock ==
    \E file \in LockChoices :
        /\ call = NoCall
        /\ call' = [fn |-> "collectFromPackageLock", file |-> file]
        /\ LET r == collectFromPackageLock(<<>>, file) IN
               ret' = Ok(Deref(r.heap, r.map))
        /\ UNCHANGED <<installedMap, heap, mainVars, walkVars>>

LockNext == CallCollectFromPackageLock

SpecLock == LibInit /\ [][LockNext]_vars

\* the lockfile collector returned, for a lockfile that parses
LockCollected == call.fn = "collectFromPackageLock" /\ call.file.st = "ok"

\* the <<key, value>> records of a JSON object; none for anything else
RecordsOf(v) == IF v.t = "obj" THEN Range(v.a) ELSE {}

\* the field of a JSON object; undefined when v has none or is no object
FieldOf(v, key) ==
    IF \E r \in RecordsOf(v) : r[1] = key
    THEN (CHOOSE r \in RecordsOf(v) : r[1] = key)[2]
    ELSE Undefined

\* the record or node carries a version: not undefined, null, 0 or ""
CarriesVersion(meta) ==
    FieldOf(meta, "version") \notin {Undefined, Null, Num(0), Str(""), Bool(FALSE)}

\* the key is node_modules/<name>
HasInstallRoot(key) ==
    Len(key) >= Len("node_modules/")
        /\ SubSeq(key, 1, Len("node_modules/")) = "node_modules/"

\* <name> of the key node_modules/<name>
AfterInstallRoot(key) == SubSeq(key, Len("node_modules/") + 1, Len(key))

\* the pairs of the flat map, from the records keyed node_modules/<name>
FlatPairsWithInstallRoot(lockJson) ==
    {<<Str(AfterInstallRoot(r[1])), Str(String(FieldOf(r[2], "version")))>> :
        r \in {q \in RecordsOf(FieldOf(lockJson, "packages")) :
                  HasInstallRoot(q[1]) /\ CarriesVersion(q[2])}}

\* the pairs of the flat map, from all its records: a key that does not
\* start with node_modules/ is the name as it stands
FlatPairsOfAllKeys(lockJson) ==
    {<<Str(IF HasInstallRoot(r[1]) THEN AfterInstallRoot(r[1]) ELSE r[1]),
       Str(String(FieldOf(r[2], "version")))>> :
        r \in {q \in RecordsOf(FieldOf(lockJson, "packages")) :
                  CarriesVersion(q[2])}}

\* the pairs of the nodes of a dependencies tree, at every depth
RECURSIVE TreePairs(_)
TreePairs(deps) ==
    UNION {(IF CarriesVersion(r[2])
            THEN {<<Str(r[1]), Str(String(FieldOf(r[2], "version")))>>}
            ELSE {})
           \cup TreePairs(FieldOf(r[2], "dependencies")) :
           r \in RecordsOf(deps)}

\* C10 as stated: the inventory of a parsable lockfile is exactly the pairs
\* (<name>, String(version)) of the flat-map records keyed
\* node_modules/<name> that carry a version, together with the pairs (node
\* key, String(version)) of the nodes of the dependencies tree that carry one.
LockInventoryFromInstallRootKeys ==
    LockCollected =>
        /\ ~ret.threw
        /\ PairsOf(ret.val) =
               FlatPairsWithInstallRoot(call.file.val)
                   \cup TreePairs(FieldOf(call.file.val, "dependencies"))

\* C10 as amended: the same, with every flat-map record that carries a
\* version contributing, under its key with one leading node_modules/
\* removed, or under its key unchanged when it does not start with it.
LockInventoryFromAllKeys ==
    LockCollected =>
        /\ ~ret.threw
        /\ PairsOf(ret.val) =
               FlatPairsOfAllKeys(call.file.val)
                   \cup TreePairs(FieldOf(call.file.val, "dependencies"))

\* C10 witness: { packages: { "node_modules/@s/p": {version: 2} },
\* dependencies: { a: { dependencies: { b: {version: "1"} } } } } gives
\* (@s/p, "2") and (b, "1").
LockInventoryWitness ==
    /\ LockCollected
    /\ call.file.val =
           LockDoc(Obj(<< <<"node_modules/@s/p", Meta(Num(2))>> >>),
                   Obj(<< <<"a", Obj(<< <<"dependencies",
                                          Obj(<< <<"b", Meta(Str("1"))>> >>)>> >>)>> >>))
    /\ PairsOf(ret.val) = {<<Str("@s/p"), Str("2")>>, <<Str("b"), Str("1")>>}

-----------------------------------------------------------------------------
(* The lockfile that is absent or does not parse.                          *)

\* the lockfile collector has returned in this run
LockCollectorReturned == "package-lock.json" \in collected

\* what compare and uniqFindings give for the filesystem inventory alone
FindingsOfFilesystemAlone ==
    LET r == compare(NmReturned, knownBad) IN
    IF r.threw THEN <<>> ELSE uniqFindings(r.val)

\* C11: with a lockfile that is absent or does not parse, the lockfile
\* collector returns an empty inventory and raises nothing, the run goes on
\* to the merge, the merged inventory is the filesystem inventory, and the
\* findings are those of the filesystem inventory alone.
UnusableLockfileIsEmptyInventory ==
    lockFile.st # "ok" =>
        /\ LockReturned = <<>>
        /\ LockCollectorReturned =>
               /\ lock = <<>>
               /\ pc \in {"merge", "compare", "report", "done"}
               /\ exit # <<2>>
        /\ MergeDone => Deref(heap, merged) = NmReturned
        /\ FindingsReady => findings = FindingsOfFilesystemAlone

\* C11 witness: a run with an unparsable lockfile has reported a finding
\* that the filesystem inventory gave.
UnusableLockfileWitness ==
    /\ lockFile = Unparsable
    /\ FindingsReady
    /\ pc = "done"
    /\ findings # <<>>
    /\ findings = FindingsOfFilesystemAlone

-----------------------------------------------------------------------------
(* collectFromNodeModules, one step of walk() at a time.                   *)

\* a frame of walk(nested) called without its depth, which is then 0
FrameDefaultDepth(dir, depth) ==
    [dir |-> dir, depth |-> 0, phase |-> "enter", i |-> 1, j |-> 1]

\* a frame of walk(dir, depth): before readdirSync ("enter"), in the loop
\* over entries at entry i ("entries"), or in the loop over the children of
\* the @scope entries[i] at child j ("scoped")
Frame(dir, depth) == [dir |-> dir, depth |-> depth, phase |-> "enter", i |-> 1, j |-> 1]

\* the package named p<k>, or @s/p<k>
PkgName(k) == "p" \o NumToString(k)

\* the one entry of level k of a chain: p<k>, or @s with p<k> in it
ChainEntry(pattern, k, nested) ==
    IF pattern = "scoped" \/ (pattern = "mixed" /\ k % 2 = 1)
    THEN ScopeDir("@s", <<PkgDir(PkgName(k),
                                 Manifest("@s/" \o PkgName(k), "1"), nested)>>)
    ELSE PkgDir(PkgName(k), Manifest(PkgName(k), "1"), nested)

\* node_modules/p0/node_modules/p1/.../node_modules/p<n-1>
ChainTree(n, pattern) ==
    [root |-> 1,
     dirs |-> [k \in 1..n |->
                  Dir(<<ChainEntry(pattern, k - 1, IF k < n THEN k + 1 ELSE NoDir)>>)]]

MaxLevels == 9

ChainTrees ==
    {ChainTree(n, pattern) : n \in 1..MaxLevels,
                             pattern \in {"plain", "scoped", "mixed"}}

\* node_modules/{a,b}, a/node_modules/c, b/node_modules/d, d/node_modules/e
TreeWide ==
    [root |-> 1,
     dirs |-> <<Dir(<<PkgDir("a", Manifest("a", "1"), 2),
                      PkgDir("b", Manifest("b", "1"), 3)>>),
                Dir(<<PkgDir("c", Manifest("c", "1"), NoDir)>>),
                Dir(<<PkgDir("d", Manifest("d", "2"), 4)>>),
                Dir(<<PkgDir("e", Manifest("e", "1"), NoDir)>>)>>]

\* node_modules/a/node_modules is a link to node_modules
TreeCycle ==
    [root |-> 1, dirs |-> <<Dir(<<PkgDir("a", Manifest("a", "1"), 1)>>)>>]

\* node_modules/a/node_modules/b/node_modules is a link to node_modules
TreeCycleOfTwo ==
    [root |-> 1,
     dirs |-> <<Dir(<<PkgDir("a", Manifest("a", "1"), 2)>>),
                Dir(<<PkgDir("b", Manifest("b", "1"), 1)>>)>>]

\* node_modules/a/node_modules and node_modules/@s/b/node_modules are both
\* links to node_modules
TreeCycleWide ==
    [root |-> 1,
     dirs |-> <<Dir(<<PkgDir("a", Manifest("a", "1"), 1),
                      ScopeDir("@s", <<PkgDir("b", Manifest("@s/b", "1"), 1)>>)>>)>>]

\* manifests: none in a (which has a nested node_modules with h@1), not
\* JSON in b, no version in c, no name in d, a string in f, version "" in g;
\* e@1 is as it should be
TreeBadManifests ==
    [root |-> 1,
     dirs |-> <<Dir(<<PkgDir("a", Missing, 2),
                      PkgDir("b", Unparsable, NoDir),
                      PkgDir("c", File(Obj(<< <<"name", Str("c")>> >>)), NoDir),
                      PkgDir("d", File(Obj(<< <<"version", Str("1")>> >>)), NoDir),
                      PkgDir("e", Manifest("e", "1"), NoDir),
                      PkgDir("f", File(Str("x")), NoDir),
                      PkgDir("g", Manifest("g", ""), NoDir)>>),
                Dir(<<PkgDir("h", Manifest("h", "1"), NoDir)>>)>>]

\* node_modules cannot be listed
TreeUnreadableRoot ==
    [root |-> 1,
     dirs |-> <<[readable |-> FALSE,
                 entries |-> <<PkgDir("a", Manifest("a", "1"), NoDir)>>]>>]

\* node_modules/a/node_modules cannot be listed; a@1 and b@1 are there
TreeUnreadableNested ==
    [root |-> 1,
     dirs |-> <<Dir(<<PkgDir("a", Manifest("a", "1"), 2),
                      PkgDir("b", Manifest("b", "1"), NoDir)>>),
                [readable |-> FALSE,
                 entries |-> <<PkgDir("c", Manifest("c", "1"), NoDir)>>]>>]

\* node_modules/@s cannot be listed; node_modules/@t/q and b can
TreeUnreadableScope ==
    [root |-> 1,
     dirs |-> <<Dir(<<[ScopeDir("@s", <<PkgDir("p", Manifest("@s/p", "1"), NoDir)>>)
                          EXCEPT !.readable = FALSE],
                      ScopeDir("@t", <<PkgDir("q", Manifest("@t/q", "1"), NoDir)>>),
                      PkgDir("b", Manifest("b", "1"), NoDir)>>)>>]

\* an entry that is no directory although a manifest is found through it
\* (a symbolic link to a package directory: Dirent.isDirectory() is false)
LinkEntry(name, manifest, nested) ==
    [PkgDir(name, manifest, nested) EXCEPT !.isDir = FALSE]

\* node_modules/.h (hidden@1, with .h/node_modules/x), node_modules/l (a
\* link, linked@1) and node_modules/b (b@1)
TreeHidden ==
    [root |-> 1,
     dirs |-> <<Dir(<<PkgDir(".h", Manifest("hidden", "1"), 2),
                      LinkEntry("l", Manifest("linked", "1"), 2),
                      PkgDir("b", Manifest("b", "1"), NoDir)>>),
                Dir(<<PkgDir("x", Manifest("x", "1"), NoDir)>>)>>]

\* node_modules/@s/l (a link, @s/l@1) and node_modules/@s/p (@s/p@1)
TreeLinkInScope ==
    [root |-> 1,
     dirs |-> <<Dir(<<ScopeDir("@s", <<LinkEntry("l", Manifest("@s/l", "1"), 2),
                                       PlainFile("README"),
                                       PkgDir("p", Manifest("@s/p", "1"), NoDir)>>)>>),
                Dir(<<PkgDir("x", Manifest("x", "1"), NoDir)>>)>>]

\* node_modules/@s/.h (@s/.h@1, with @s/.h/node_modules/x) and
\* node_modules/@s/p (@s/p@1)
TreeHiddenInScope ==
    [root |-> 1,
     dirs |-> <<Dir(<<ScopeDir("@s", <<PkgDir(".h", Manifest("@s/.h", "1"), 2),
                                       PkgDir("p", Manifest("@s/p", "1"), NoDir)>>)>>),
                Dir(<<PkgDir("x", Manifest("x", "1"), NoDir)>>)>>]

\* node_modules/@s/p whose manifest says evil@1, node_modules/@s/q (@s/q@1)
\* and node_modules/b whose manifest says c@1
TreeOtherNames ==
    [root |-> 1,
     dirs |-> <<Dir(<<ScopeDir("@s", <<PkgDir("p", Manifest("evil", "1"), NoDir),
                                       PkgDir("q", Manifest("@s/q", "1"), NoDir)>>),
                      PkgDir("b", Manifest("c", "1"), NoDir)>>)>>]

WalkTrees ==
    Trees \cup ChainTrees
        \cup {TreeWide, TreeCycle, TreeCycleOfTwo, TreeCycleWide,
              TreeBadManifests, TreeUnreadableRoot, TreeUnreadableNested,
              TreeUnreadableScope, TreeHidden, TreeLinkInScope,
              TreeHiddenInScope, TreeOtherNames}

\* collectFromNodeModules() is running
Walking == call.fn = "collectFromNodeModules" /\ ~call.returned

\* collectFromNodeModules() up to the call walk(nmRoot)
CallCollectFromNodeModules ==
    \E t \in WalkTrees :
        /\ call = NoCall
        /\ call' = [fn |-> "collectFromNodeModules", tree |-> t, returned |-> FALSE]
        /\ stack' = IF t.root = NoDir THEN <<>> ELSE <<Frame(t.root, 0)>>
        /\ UNCHANGED <<ret, installedMap, heap, listed, mainVars>>

\* walk(dir, depth) up to the loop: the depth test and readdirSync
WalkEnter ==
    /\ Walking
    /\ stack # <<>>
    /\ LET top == Head(stack) IN
           /\ top.phase = "enter"
           /\ IF top.depth > MaxDepth
              THEN /\ stack' = Tail(stack)
                   /\ UNCHANGED listed
              ELSE /\ listed' = listed \cup {<<top.dir, top.depth>>}
                   /\ stack' = IF ~call.tree.dirs[top.dir].readable
                               THEN Tail(stack)
                               ELSE <<[top EXCEPT !.phase = "entries"]>> \o Tail(stack)
    /\ UNCHANGED <<call, ret, installedMap, heap, mainVars>>

\* AfterPackage with walk(nested, depth) in place of walk(nested, depth + 1)
AfterPackageSameDepth(ent, top, rest) ==
    IF ent.nested # NoDir
    THEN <<Frame(ent.nested, top.depth), top>> \o rest
    ELSE <<top>> \o rest

\* the frames after processPkg(pkgDir) for the package directory ent: walk is
\* called on its node_modules if it has one
AfterPackage(ent, top, rest) ==
    IF ent.nested # NoDir
    THEN <<Frame(ent.nested, top.depth + 1), top>> \o rest
    ELSE <<top>> \o rest

\* one turn of for (const ent of entries)
WalkEntry ==
    /\ Walking
    /\ stack # <<>>
    /\ LET top     == Head(stack)
           entries == call.tree.dirs[top.dir].entries
       IN  /\ top.phase = "entries"
           /\ top.i <= Len(entries)
           /\ LET ent  == entries[top.i]
                  next == [top EXCEPT !.i = top.i + 1]
              IN IF ~ent.isDir \/ StartsWith(ent.name, ".")
                 THEN /\ stack' = <<next>> \o Tail(stack)
                      /\ UNCHANGED <<heap, installedMap>>
                 ELSE IF StartsWith(ent.name, "@")
                 THEN /\ stack' = IF ent.readable
                                  THEN <<[top EXCEPT !.phase = "scoped", !.j = 1]>>
                                           \o Tail(stack)
                                  ELSE <<next>> \o Tail(stack)
                      /\ UNCHANGED <<heap, installedMap>>
                 ELSE /\ LET r == processPkg([heap |-> heap, map |-> installedMap], ent)
                         IN /\ heap' = r.heap
                            /\ installedMap' = r.map
                      /\ stack' = AfterPackage(ent, next, Tail(stack))
    /\ UNCHANGED <<call, ret, listed, mainVars>>

\* one turn of for (const s of scoped), or its end and the continue after it
WalkScopedEntry ==
    /\ Walking
    /\ stack # <<>>
    /\ LET top    == Head(stack)
           scoped == call.tree.dirs[top.dir].entries[top.i].children
       IN  /\ top.phase = "scoped"
           /\ IF top.j > Len(scoped)
              THEN /\ stack' = <<[top EXCEPT !.phase = "entries", !.i = top.i + 1]>>
                                   \o Tail(stack)
                   /\ UNCHANGED <<heap, installedMap>>
              ELSE LET s    == scoped[top.j]
                       next == [top EXCEPT !.j = top.j + 1]
                   IN IF ~s.isDir
                      THEN /\ stack' = <<next>> \o Tail(stack)
                           /\ UNCHANGED <<heap, installedMap>>
                      ELSE /\ LET r == processPkg([heap |-> heap, map |-> installedMap], s)
                              IN /\ heap' = r.heap
                                 /\ installedMap' = r.map
                           /\ stack' = AfterPackage(s, next, Tail(stack))
    /\ UNCHANGED <<call, ret, listed, mainVars>>

\* the end of the loop over entries: walk returns to its caller
WalkReturn ==
    /\ Walking
    /\ stack # <<>>
    /\ LET top == Head(stack) IN
           /\ top.phase = "entries"
           /\ top.i > Len(call.tree.dirs[top.dir].entries)
    /\ stack' = Tail(stack)
    /\ UNCHANGED <<call, ret, installedMap, heap, listed, mainVars>>

\* return hits
CollectFromNodeModulesReturn ==
    /\ Walking
    /\ stack = <<>>
    /\ call' = [call EXCEPT !.returned = TRUE]
    /\ ret' = Ok(Deref(heap, installedMap))
    /\ UNCHANGED <<installedMap, heap, mainVars, walkVars>>

WalkNext ==
    \/ CallCollectFromNodeModules
    \/ WalkEnter
    \/ WalkEntry
    \/ WalkScopedEntry
    \/ WalkReturn
    \/ CollectFromNodeModulesReturn

SpecWalk == LibInit /\ [][WalkNext]_vars

\* the walk with the scheduling of a running process: a step that can be
\* taken is taken
SpecWalkFair == SpecWalk /\ WF_vars(WalkNext)

\* collectFromNodeModules() has returned
WalkReturned == call.fn = "collectFromNodeModules" /\ call.returned

-----------------------------------------------------------------------------
(* The depth bound of the walk.                                            *)

\* the name does not start with a dot
Visible(ent) == Len(ent.name) = 0 \/ SubSeq(ent.name, 1, 1) # "."

\* the name starts with @
IsNamespace(ent) == Len(ent.name) > 0 /\ SubSeq(ent.name, 1, 1) = "@"

\* the entries of a sequence that are visible directories
VisibleDirs(entries) == {e \in Range(entries) : e.isDir /\ Visible(e)}

\* the package directories of a node_modules directory: its visible
\* subdirectories, and for an @namespace among them the visible
\* subdirectories of the namespace
Packages(t, d) ==
    {e \in VisibleDirs(t.dirs[d].entries) : ~IsNamespace(e)}
        \cup UNION {VisibleDirs(e.children) :
                       e \in {n \in VisibleDirs(t.dirs[d].entries) : IsNamespace(n)}}

\* the node_modules directories at a nesting level, the root being level 0
RECURSIVE DirsAtLevel(_, _)
DirsAtLevel(t, k) ==
    IF t.root = NoDir THEN {}
    ELSE IF k = 0 THEN {t.root}
    ELSE {e.nested : e \in UNION {Packages(t, d) : d \in DirsAtLevel(t, k - 1)}}
             \ {NoDir}

\* the manifest parses and declares a name and a version
ValidManifest(e) ==
    /\ e.manifest.st = "ok"
    /\ FieldOf(e.manifest.val, "name") \notin {Undefined, Null, Str("")}
    /\ CarriesVersion(e.manifest.val)

\* the pair a valid manifest declares
DeclaredPair(e) ==
    <<FieldOf(e.manifest.val, "name"),
      Str(String(FieldOf(e.manifest.val, "version")))>>

\* every directory of the tree can be listed
ReadableTree(t) ==
    \A d \in 1..Len(t.dirs) :
        /\ t.dirs[d].readable
        /\ \A e \in VisibleDirs(t.dirs[d].entries) : IsNamespace(e) => e.readable

\* the levels a tree of the model can have
Levels == 0..(MaxLevels + 1)

\* the pairs of the packages with a valid manifest at the levels up to k
PairsUpToLevel(t, k) ==
    {DeclaredPair(e) :
        e \in {u \in UNION {Packages(t, d) :
                               d \in UNION {DirsAtLevel(t, l) : l \in 0..k}} :
                  ValidManifest(u)}}

\* C12: every readdirSync of a node_modules directory happens at a depth of
\* at most 6, a node_modules directory found only at nesting levels above 6
\* is never listed, and when the collector has returned for a readable tree,
\* the pair of a package with a valid manifest is in the inventory if and
\* only if a package declaring it lies in a node_modules directory at
\* nesting level at most 6.
WalkBoundedAtLevelSix ==
    call.fn = "collectFromNodeModules" =>
        LET t == call.tree IN
        /\ \A l \in listed : l[2] <= 6
        /\ \A k \in Levels :
               k > 6 =>
                   \A d \in DirsAtLevel(t, k) \ UNION {DirsAtLevel(t, l) : l \in 0..6} :
                       \A l \in listed : l[1] # d
        /\ WalkReturned /\ ReadableTree(t) =>
               \A p \in PairsUpToLevel(t, MaxLevels + 1) :
                   p \in PairsOf(ret.val) <=> p \in PairsUpToLevel(t, 6)

\* C12 witness: the collector has returned for a chain of node_modules
\* directories at the levels 0 to 8, with p6 in the inventory, p7 and p8 not,
\* and the directory of level 6 the deepest one listed.
WalkBoundedWitness ==
    /\ WalkReturned
    /\ call.tree = ChainTree(9, "plain")
    /\ <<Str("p6"), Str("1")>> \in PairsOf(ret.val)
    /\ <<Str("p7"), Str("1")>> \notin PairsOf(ret.val)
    /\ <<Str("p8"), Str("1")>> \notin PairsOf(ret.val)
    /\ listed = {<<k + 1, k>> : k \in 0..6}

-----------------------------------------------------------------------------
(* Hidden entries and entries that are no directories.                     *)

\* the entries of the node_modules directories of a tree
TopEntries(t) == UNION {Range(t.dirs[d].entries) : d \in 1..Len(t.dirs)}

\* the entries of its @namespace containers
NamespaceEntries(t) ==
    UNION {Range(e.children) :
              e \in {n \in TopEntries(t) : n.isDir /\ Visible(n) /\ IsNamespace(n)}}

\* the entry is hidden or is no directory
Skipped(e) == ~e.isDir \/ ~Visible(e)

\* the node_modules directories some package directory leads to
PackageDirs(t) == UNION {DirsAtLevel(t, k) : k \in Levels}

\* nothing of the entry has come into the inventory, and its own
\* node_modules has not been listed
Untouched(t, e) ==
    /\ ValidManifest(e) /\ DeclaredPair(e) \notin PairsUpToLevel(t, MaxLevels + 1)
           => DeclaredPair(e) \notin PairsOf(Deref(heap, installedMap))
    /\ e.nested # NoDir /\ e.nested \notin PackageDirs(t)
           => \A l \in listed : l[1] # e.nested

\* C13 as stated: at every level it lists, among the direct children of a
\* node_modules directory and among the children of an @namespace container,
\* the collector skips every hidden entry and every entry that is no
\* directory: none contributes a pair and none is recursed into.
SkipsHiddenAndNonDirectories ==
    call.fn = "collectFromNodeModules" =>
        \A e \in TopEntries(call.tree) \cup NamespaceEntries(call.tree) :
            Skipped(e) => Untouched(call.tree, e)

-----------------------------------------------------------------------------
(* Manifests and directories that cannot be read.                          *)

\* the entry with a manifest that declares no pair taken away
WithoutBadManifest(e) ==
    IF ValidManifest(e) THEN e ELSE [e EXCEPT !.manifest = Missing]

\* the entries with the failing items taken away: manifests that declare no
\* pair, and the content of @namespace containers that cannot be listed
WithoutFailingItems(entries) ==
    [i \in 1..Len(entries) |->
        LET e == entries[i] IN
        IF e.isDir /\ IsNamespace(e)
        THEN [e EXCEPT !.readable = TRUE,
                       !.children = IF e.readable
                                    THEN [j \in 1..Len(e.children) |->
                                             WithoutBadManifest(e.children[j])]
                                    ELSE <<>>]
        ELSE WithoutBadManifest(e)]

\* the tree as it is when every failing item is absent: an unlistable
\* directory is there with nothing in it
Healed(t) ==
    [root |-> t.root,
     dirs |-> [d \in 1..Len(t.dirs) |->
                  IF t.dirs[d].readable
                  THEN Dir(WithoutFailingItems(t.dirs[d].entries))
                  ELSE Dir(<<>>)]]

\* the inventory of the tree without its failing items
HealedInventory(t) ==
    LET r == collectFromNodeModules(<<>>, Healed(t)) IN Deref(r.heap, r.map)

\* C14: when the collector has returned for a tree with a manifest that is
\* missing, unparsable or declares no name or no version, or with a
\* directory that cannot be listed, it has raised no error, and its
\* inventory is, name by name and version by version, the inventory of the
\* same tree with the failing items absent.
DegradedReadsAreLocal ==
    WalkReturned /\ Healed(call.tree) # call.tree =>
        /\ ~ret.threw
        /\ stack = <<>>
        /\ ret.val = HealedInventory(call.tree)

\* C14 witness: the collector has returned for the tree of bad manifests
\* with e@1 and, from the node_modules of the package without manifest, h@1.
DegradedReadsWitness ==
    /\ WalkReturned
    /\ call.tree = TreeBadManifests
    /\ PairsOf(ret.val) = {<<Str("e"), Str("1")>>, <<Str("h"), Str("1")>>}

-----------------------------------------------------------------------------
(* The name a manifest declares and the directory it lies in.              *)

\* the names that manifests outside @namespace containers declare
NamesDeclaredOutsideNamespaces(t) ==
    {FieldOf(e.manifest.val, "name") :
        e \in {u \in TopEntries(t) : u.isDir /\ ~IsNamespace(u) /\ ValidManifest(u)}}

\* the names <namespace>/<child> of the package directories in @namespace
\* containers whose manifest declares just that name
NamesMatchingTheirPath(t) ==
    UNION {{Str(n.name \o "/" \o c.name) :
               c \in {u \in Range(n.children) :
                         /\ u.isDir
                         /\ ValidManifest(u)
                         /\ FieldOf(u.manifest.val, "name")
                                = Str(n.name \o "/" \o u.name)}} :
           n \in {e \in TopEntries(t) : e.isDir /\ IsNamespace(e)}}

\* C15 as stated: the manifest of a package directory <namespace>/<child>
\* in an @namespace container puts a name into the inventory only when it
\* declares the name <namespace>/<child>: every name of the inventory is
\* declared by a manifest outside the namespaces or is the path of the
\* namespaced package directory whose manifest declares it.
NamespacedNameMatchesPath ==
    call.fn = "collectFromNodeModules" =>
        \A name \in MapKeys(Deref(heap, installedMap)) :
            \/ name \in NamesDeclaredOutsideNamespaces(call.tree)
            \/ name \in NamesMatchingTheirPath(call.tree)

-----------------------------------------------------------------------------
(* Lockfile keys of nested installs.                                       *)

\* where "node_modules/" starts in a string
InstallRootAt(str) ==
    {i \in 1..Len(str) :
        /\ i + Len("node_modules/") - 1 <= Len(str)
        /\ SubSeq(str, i, i + Len("node_modules/") - 1) = "node_modules/"}

\* what follows the last "node_modules/" of a key: the bare package name
BareNameOf(key) ==
    IF InstallRootAt(key) = {} THEN key
    ELSE LET last == CHOOSE i \in InstallRootAt(key) :
                         \A k \in InstallRootAt(key) : k <= i
         IN SubSeq(key, last + Len("node_modules/"), Len(key))

\* C16 as stated: no name of the lockfile inventory contains the segment
\* "node_modules/", and every record of the flat map that carries a version
\* V is inventoried under its bare package name: the record keyed
\* node_modules/a/node_modules/b gives (b, V).
LockNamesAreBare ==
    LockCollected =>
        /\ \A name \in MapKeys(ret.val) : InstallRootAt(name.s) = {}
        /\ \A r \in RecordsOf(FieldOf(call.file.val, "packages")) :
               CarriesVersion(r[2]) =>
                   <<Str(BareNameOf(r[1])), Str(String(FieldOf(r[2], "version")))>>
                       \in PairsOf(ret.val)

-----------------------------------------------------------------------------
(* Registry entries without badVersions.                                   *)

\* the run is a scan with a known-bad list that passed the loader
ScanWithValidRegistry == SourceValid /\ ~SHOW_HELP /\ ~SHOW_LIST

\* C17 as stated: in a scan with a registry that passed the loader's
\* validation, compare raises no error, so the run never ends with an
\* uncaught exception, and it ends with exit code 1 only when the finding
\* list is not empty; an entry with a name and no badVersions gives no
\* finding and does not end the scan.
ValidRegistryNeverAborts ==
    ScanWithValidRegistry =>
        /\ \A i \in 1..Len(output) : output[i] # "uncaught TypeError"
        /\ MergeDone => ~compare(Deref(heap, merged), knownBad).threw
        /\ pc = "done" /\ exit = <<1>> => findings # <<>>

-----------------------------------------------------------------------------
(* Deduplication of what compare emits.                                    *)

\* what compare emitted in this run, before uniqFindings
Emitted == compare(Deref(heap, merged), knownBad)

\* C18 as stated: every (name, version) pair that compare emits for the
\* merged inventory is in the final finding list as a finding with that name
\* and that version, and findings that differ in name or in version are not
\* collapsed: the final list has one finding for each pair emitted.
DedupKeepsEveryMatch ==
    FindingsReady /\ ~Emitted.threw =>
        /\ \A p \in FindingPairs(Emitted.val) : CountFindings(findings, p) = 1
        /\ Len(findings) = Cardinality(FindingPairs(Emitted.val))

\* no two pairs that compare emitted have the same key string
KeysTellPairsApart ==
    \A f, g \in Range(Emitted.val) :
        IdentityKey(f) = IdentityKey(g) => f.name = g.name /\ f.version = g.version

\* C18 as amended: the final list is made of emitted findings, holds no key
\* name + "@" + version twice, and holds for every emitted pair the first
\* emitted finding with the key of that pair; it holds every emitted pair
\* itself, once, whenever no two emitted pairs share a key string, which
\* they can do only with an "@" in a name or a version.
DedupKeepsEveryKey ==
    FindingsReady /\ ~Emitted.threw =>
        LET E == Emitted.val IN
        /\ \A i \in 1..Len(findings) : findings[i] \in Range(E)
        /\ \A i, j \in 1..Len(findings) :
               IdentityKey(findings[i]) = IdentityKey(findings[j]) => i = j
        /\ \A i \in 1..Len(E) :
               \E k \in FirstOccurrences(E) :
                   /\ k <= i
                   /\ IdentityKey(E[k]) = IdentityKey(E[i])
                   /\ E[k] \in Range(findings)
        /\ KeysTellPairsApart =>
               /\ \A q \in FindingPairs(E) : CountFindings(findings, q) = 1
               /\ Len(findings) = Cardinality(FindingPairs(E))

\* C18 witness: compare emitted (a@1, 1) and (a, 1@1), whose keys are both
\* a@1@1, and the final list holds the first of them only.
DedupKeyWitness ==
    /\ FindingsReady
    /\ ~Emitted.threw
    /\ FindingPairs(Emitted.val) =
           {<<Str("a@1"), Str("1")>>, <<Str("a"), Str("1@1")>>}
    /\ findings = <<[name |-> Str("a@1"), version |-> Str("1")]>>

-----------------------------------------------------------------------------
(* Termination of the walk.                                                *)

\* the outermost frame is walk(nmRoot) at depth 0, and every other frame is
\* one deeper than the frame that called it
DepthGrowsByOne ==
    /\ stack # <<>> => stack[Len(stack)].depth = 0
    /\ \A k \in 1..(Len(stack) - 1) : stack[k].depth = stack[k + 1].depth + 1

\* no frame is deeper than 7, and a frame at depth 7 returns at once
DepthStopsAtSeven ==
    \A k \in 1..Len(stack) :
        /\ stack[k].depth <= 7
        /\ stack[k].depth = 7 => stack[k].phase = "enter"

\* C19: on every tree, also one in which the node_modules of a package leads
\* back to a node_modules directory above it, each call of walk on a nested
\* node_modules has the depth of its caller plus 1, no call goes deeper than
\* depth 7, where it returns at once, and the collector, once called,
\* eventually returns its inventory.
WalkTerminates ==
    /\ [](DepthGrowsByOne /\ DepthStopsAtSeven)
    /\ (call.fn = "collectFromNodeModules") ~> WalkReturned

\* C19 witness: the collector has returned for the tree whose
\* node_modules/a/node_modules leads back to node_modules, after listing
\* that directory at the depths 0 to 6, with a@1 as its inventory.
WalkTerminatesWitness ==
    /\ WalkReturned
    /\ call.tree = TreeCycle
    /\ stack = <<>>
    /\ listed = {<<1, k>> : k \in 0..6}
    /\ PairsOf(ret.val) = {<<Str("a"), Str("1")>>}

====
